---- MODULE Spec2Model ----
(***************************************************************************)
(* A model of the playlist pipeline of src/music_utils.py:                  *)
(* interpret_user_query (constraint extraction) followed by                 *)
(* generate_constrained_playlist (sourcing, exclusion, generative fallback, *)
(* tempo backfill and ordering, snapshot retrieval, truncation, enrichment  *)
(* and projection).                                                         *)
(*                                                                          *)
(* Text is modelled at the level of tokens: a user_query is a sequence of        *)
(* tokens, and "term in user_query.lower()" is the presence of the token.   *)
(* Python's None / a missing JSON key is the empty tuple <<>>, a present    *)
(* value v is the one-element tuple <<v>>.                                   *)
(***************************************************************************)
EXTENDS Integers, Sequences, FiniteSets, TLC

\* ------------------------------------------------------------------ bounds
\* most tracks one answer of the generative fallback holds
MaxAI == 2
\* most tracks one answer of the similarity service holds
MaxRecs == 2
\* most pages the user's saved tracks fill
MaxPages == 3
\* most calls of get_user_preferences in one behaviour
MaxCalls == 3

\* ------------------------------------------------------------- optionals
Null == <<>>
Some(v) == <<v>>
IsNull(o) == o = <<>>
Val(o) == o[1]

\* ----------------------------------------------------- program constants
DefaultDuration == 60
DefaultBpmLow == 60
DefaultBpmHigh == 130
DefaultYearLow == 2019
DefaultYearHigh == 2024
AvgSongLength == 4
MinSongs == 5
Placeholder == "https://via.placeholder.com/200"

\* ------------------------------------------------------ string functions
\* str.lower() on the strings of the model
Lower(s) ==
  CASE s = "Drake" -> "drake"
    [] s = "DRAKE " -> "drake "
    [] s = "Adele" -> "adele"
    [] s = "Sia" -> "sia"
    [] s = "Unknown" -> "unknown"
    [] s = "Hotline Bling" -> "hotline bling"
    [] s = "Hotline Bling by Drake" -> "hotline bling by drake"
    [] OTHER -> s

\* str.strip() on the strings of the model
Strip(s) ==
  CASE s = "DRAKE " -> "DRAKE"
    [] s = "drake " -> "drake"
    [] OTHER -> s

\* s.strip().lower()
StripLower(s) ==
  LET t == Strip(s) IN IF t = "DRAKE" THEN "drake" ELSE Lower(t)

\* Python's "needle in hay" (substring) on the strings of the model
Contains(needle, hay) ==
  \/ needle = hay
  \/ needle = ""
  \/ needle = "drake" /\ hay = "drake "
  \/ needle = "rock" /\ hay = "soft rock"
  \/ needle = "pop" /\ hay = "k-pop"
  \/ needle \in {"pop", "rap"} /\ hay = "pop rap"

\* Python truthiness of an optional string
Truthy(o) == ~IsNull(o) /\ Val(o) # ""

\* --------------------------------------------------- heuristic extraction
NumberTokens == {"45", "2", "1.5", "20", "10", "0.5"}

\* float(token) in tenths
Tenths(t) ==
  CASE t = "45" -> 450
    [] t = "2" -> 20
    [] t = "1.5" -> 15
    [] t = "20" -> 200
    [] t = "10" -> 100
    [] t = "0.5" -> 5

\* the words that the unit alternative (hour|hr|min|minutes) matches a prefix of
UnitTokens == {"hour", "hours", "hr", "min", "minute", "minutes"}

\* group(3) of the duration match: the first alternative that matches
UnitGroup(t) ==
  CASE t \in {"hour", "hours"} -> "hour"
    [] t = "hr" -> "hr"
    [] OTHER -> "min"

DurationMatchAt(q, i) ==
  i < Len(q) /\ q[i] \in NumberTokens /\ q[i + 1] \in UnitTokens

\* re.search: the leftmost match, 0 when there is none
DurationMatch(q) ==
  IF \E i \in 1..Len(q) : DurationMatchAt(q, i)
  THEN CHOOSE i \in 1..Len(q) :
         DurationMatchAt(q, i) /\ \A j \in 1..(i - 1) : ~DurationMatchAt(q, j)
  ELSE 0

\* extracted_duration: int(value * 60) for an "hour" unit, int(value) otherwise
ExtractedDuration(q) ==
  LET i == DurationMatch(q)
  IN IF i = 0 THEN DefaultDuration
     ELSE IF UnitGroup(q[i + 1]) = "hour"
          THEN (Tenths(q[i]) * 60) \div 10
          ELSE Tenths(q[i]) \div 10

HasTerm(q, t) == \E i \in 1..Len(q) : q[i] = t
HasAny(q, terms) == \E t \in terms : HasTerm(q, t)

KnownGenres ==
  <<"bollywood", "hollywood", "disney", "pop", "rock", "hip hop", "rap", "jazz",
    "classical", "electronic", "edm", "country", "indie", "metal", "reggae", "r&b">>

\* the first entry of a vocabulary list that the query mentions, Null if none
FirstMentioned(q, vocabulary) ==
  IF \E k \in 1..Len(vocabulary) : HasTerm(q, vocabulary[k])
  THEN Some(vocabulary[CHOOSE k \in 1..Len(vocabulary) :
              HasTerm(q, vocabulary[k])
              /\ \A l \in 1..(k - 1) : ~HasTerm(q, vocabulary[l])])
  ELSE Null

CinematicGenres == <<"orchestral", "cinematic", "electronic", "synthwave", "ambient">>
CinematicMoods == <<"epic", "dramatic", "adventurous">>
CalmGenres == <<"lofi", "chill", "ambient", "soft rock", "indie">>
CalmMoods == <<"calm", "peaceful", "soothing">>

\* genres after the theme and vocabulary stage; <<>> when nothing was detected
HeuristicGenres(q) ==
  IF HasAny(q, {"movie", "soundtrack", "cinematic"}) THEN CinematicGenres
  ELSE IF HasAny(q, {"relax", "stress"}) THEN CalmGenres
  ELSE LET g == FirstMentioned(q, KnownGenres)
       IN IF IsNull(g) THEN <<>> ELSE <<Val(g)>>

HeuristicMoods(q) ==
  IF HasAny(q, {"movie", "soundtrack", "cinematic"}) THEN CinematicMoods
  ELSE IF HasAny(q, {"relax", "stress"}) THEN CalmMoods
  ELSE <<>>

DefaultGenres(q) == IF HeuristicGenres(q) = <<>> THEN <<"any">> ELSE HeuristicGenres(q)

ConcernBpm(q) == HasTerm(q, "BPM")

PersonalPhrases ==
  {"only my liked songs", "using my liked songs", "using my favorites",
   "using only my liked songs", "using only my favorites"}

UseOnlyUserSongs(q) == HasAny(q, PersonalPhrases)

GradualBpm(q) == HasAny(q, {"increase", "progress"})

InstrumentList ==
  <<"guitar", "piano", "violin", "drums", "saxophone", "flute", "bass", "cello",
    "trumpet", "harp", "ukulele", "mandolin">>

DetectedInstrument(q) == FirstMentioned(q, InstrumentList)

ExcludeArtistFlag(q) == HasTerm(q, "not his music")

\* the tokens of the model made of word characters and spaces only
WordToken(t) == t \notin {"1.5", "0.5"}

TargetArtistMatchAt(q, i) ==
  i < Len(q) /\ q[i] = "by" /\ \A j \in (i + 1)..Len(q) : WordToken(q[j])

\* lines 415-418, 'by ([\w\s]+)$': what follows the leftmost "by" that only word
\* characters follow up to the end of the query; in the queries of the model
\* that is one token
DetectedTargetArtist(q) ==
  IF \E i \in 1..Len(q) : TargetArtistMatchAt(q, i)
  THEN Some(Strip(q[1 + CHOOSE i \in 1..Len(q) :
              TargetArtistMatchAt(q, i) /\ \A j \in 1..(i - 1) : ~TargetArtistMatchAt(q, j)]))
  ELSE Null

\* 'sound like ([\w\s]+?)\s+but' on the lower-cased query: the reference is one token
ReferenceMatchAt(q, i) ==
  i + 2 <= Len(q) /\ q[i] = "sound like" /\ q[i + 2] = "but"

RegexReference(q) ==
  IF \E i \in 1..Len(q) : ReferenceMatchAt(q, i)
  THEN Some(Lower(q[1 + CHOOSE i \in 1..Len(q) :
              ReferenceMatchAt(q, i) /\ \A j \in 1..(i - 1) : ~ReferenceMatchAt(q, j)]))
  ELSE Null

\* ------------------------------------------------- the completion service
Json(esc, dur, bpm, gen, yrs, mood, uo, ref, inst, ta) ==
  [explicit_song_count |-> esc, duration_minutes |-> dur, bpm_range |-> bpm,
   genres |-> gen, release_year_range |-> yrs, mood_constraints |-> mood,
   use_only_user_songs |-> uo, reference_track |-> ref, instrument |-> inst,
   target_artist |-> ta]

\* the JSON object {} : every key missing
EmptyJson == Json(Null, Null, Null, Null, Null, Null, Null, Null, Null, Null)

\* JSON objects the completion service may answer with
CompletionObjects ==
  { EmptyJson,
    [EmptyJson EXCEPT !.explicit_song_count = Some(1)],
    [EmptyJson EXCEPT !.explicit_song_count = Some(2)],
    [EmptyJson EXCEPT !.explicit_song_count = Some(-1)],
    [EmptyJson EXCEPT !.duration_minutes = Some(8), !.genres = Some(<<"jazz">>)],
    [EmptyJson EXCEPT !.use_only_user_songs = Some(TRUE), !.genres = Some(<<"rock">>),
                      !.explicit_song_count = Some(2)],
    [EmptyJson EXCEPT !.use_only_user_songs = Some(FALSE)],
    [EmptyJson EXCEPT !.reference_track = Some("Hotline Bling by Drake"),
                      !.explicit_song_count = Some(2)],
    [EmptyJson EXCEPT !.bpm_range = Some(<<130, 60>>)],
    [EmptyJson EXCEPT !.target_artist = Some("drake"), !.use_only_user_songs = Some(TRUE),
                      !.genres = Some(<<"rap">>)],
    [EmptyJson EXCEPT !.mood_constraints = Some(<<"happy">>), !.instrument = Some("flute"),
                      !.release_year_range = Some(<<2024, 2019>>),
                      !.bpm_range = Some(<<>>)] }

\* what the completion call of interpret_user_query ends with:
\*   raise     the call raises
\*   nonjson   the text is not JSON (json.JSONDecodeError)
\*   notobject the text is JSON but not an object (a list, a number, a string)
\*   object    the text is a JSON object
CompletionOutcomes ==
  { [kind |-> k, json |-> EmptyJson] : k \in {"raise", "nonjson", "notobject"} }
  \cup { [kind |-> "object", json |-> j] : j \in CompletionObjects }

\* extracted_json after the try/except: {} when the call raised or the text did not parse
ExtractedJson(comp) == IF comp.kind = "object" THEN comp.json ELSE EmptyJson

\* the merge the other way round: the heuristic value wins over the value of the
\* completion service
FillIfNoneHeuristicFirst(given, default) == default

\* "if extracted_json.get(key) is None: extracted_json[key] = default"
FillIfNone(given, default) == IF IsNull(given) THEN default ELSE Val(given)

\* reference_track after the regex fallback
ReferenceTrack(q, j) ==
  IF Truthy(j.reference_track) THEN j.reference_track
  ELSE IF ~IsNull(RegexReference(q)) THEN RegexReference(q)
  ELSE IF IsNull(j.reference_track) THEN Null ELSE j.reference_track

\* whether interpret_user_query calls get_reference_track_details
NeedsResolution(q, j) == ExcludeArtistFlag(q) /\ Truthy(ReferenceTrack(q, j))

\* ------------------------------------------------ the similarity service
\* the track that track.search finds for a reference text
ReferenceDetails(ref) == [title |-> "Hotline Bling", artist |-> "Drake"]

\* what get_reference_track_details ends with: requests.get raises, no track is
\* found (or the status is not 200), or the first track found
ResolveOutcomes == {"raise", "notfound", "found"}

\* exclude_artist as interpret_user_query sets it
ExcludeArtist(q, j, res) ==
  IF NeedsResolution(q, j)
  THEN IF res = "found"
       THEN Some(StripLower(ReferenceDetails(Val(ReferenceTrack(q, j))).artist))
       ELSE Some(StripLower(Val(ReferenceTrack(q, j))))
  ELSE Null

\* the constraints interpret_user_query returns
Constraints(q, comp, res) ==
  LET j == ExtractedJson(comp)
  IN [explicit_song_count |-> j.explicit_song_count,
      duration_minutes |-> FillIfNone(j.duration_minutes, ExtractedDuration(q)),
      bpm_range |-> FillIfNone(j.bpm_range, <<DefaultBpmLow, DefaultBpmHigh>>),
      genres |-> FillIfNone(j.genres, DefaultGenres(q)),
      release_year_range |-> FillIfNone(j.release_year_range, <<DefaultYearLow, DefaultYearHigh>>),
      mood_constraints |-> FillIfNone(j.mood_constraints, HeuristicMoods(q)),
      use_only_user_songs |-> FillIfNone(j.use_only_user_songs, UseOnlyUserSongs(q)),
      reference_track |-> ReferenceTrack(q, j),
      instrument |-> IF IsNull(j.instrument) THEN DetectedInstrument(q) ELSE j.instrument,
      concern_bpm |-> ConcernBpm(q),
      gradual_bpm |-> GradualBpm(q),
      exclude_artist |-> ExcludeArtist(q, j, res),
      target_artist |-> j.target_artist]

\* Python's round(n / d) for d > 0: to the nearest integer, halves to the even one
RoundDiv(n, d) ==
  LET f == n \div d
      r == n % d
  IN IF 2 * r < d THEN f
     ELSE IF 2 * r > d THEN f + 1
     ELSE IF f % 2 = 0 THEN f ELSE f + 1

Max(a, b) == IF a >= b THEN a ELSE b

\* the target count without the floor of five songs
NumSongsNoFloor(c) ==
  IF ~IsNull(c.explicit_song_count) THEN Val(c.explicit_song_count)
  ELSE RoundDiv(c.duration_minutes, AvgSongLength)

\* num_songs: the explicit count, else max(5, round(duration / 4))
NumSongs(c) ==
  IF ~IsNull(c.explicit_song_count) THEN Val(c.explicit_song_count)
  ELSE Max(MinSongs, RoundDiv(c.duration_minutes, AvgSongLength))

\* --------------------------------------------------------------- requests
Queries ==
  { <<"45", "minute", "workout">>,
    <<"2", "hr", "car ride">>,
    <<"car ride">>,
    <<"study session", "rock">>,
    <<"1.5", "hours", "using my liked songs", "rock">>,
    <<"using my liked songs">>,
    <<"10", "songs", "20", "min", "increase", "BPM">>,
    <<"sound like", "Hotline Bling", "but", "not his music">>,
    <<"cinematic", "20", "minute", "soundtrack">>,
    <<"relax", "piano", "increase">>,
    <<"using my liked songs", "pop", "increase", "sound like", "Hotline Bling", "but",
      "not his music">>,
    <<"0.5", "hour", "workout", "songs", "by", "Drake">> }

\* ------------------------------------------------------ the user's library
\* an entry of liked_songs (labeled: it carries labeled_genres) or of top_tracks
Song(t, a, cover, uri, labeled, gs) ==
  [title |-> t, artist |-> a, album_cover |-> cover, uri |-> uri,
   labeled |-> labeled, labeled_genres |-> gs]

\* the genres the artist search returns for an artist
ArtistGenres(a) ==
  CASE a = "Adele" -> <<"soft rock", "pop">>
    [] a = "Sia" -> <<"pop">>
    [] a = "Drake" -> <<"rap", "pop rap">>
    [] OTHER -> <<>>

\* what get_user_preferences may return: liked_songs and top_tracks
Libraries ==
  { [liked_songs |-> <<>>, top_tracks |-> <<>>],
    [liked_songs |-> << Song("One Dance", "Drake", "cover:one-dance", "uri:one-dance",
                              TRUE, <<"rap">>),
                        Song("Hello", "Adele", "cover:hello", "uri:hello",
                              TRUE, <<"soft rock", "pop">>) >>,
     top_tracks  |-> << Song("Hello", "Adele", "cover:hello", "uri:hello", FALSE, <<>>) >>],
    [liked_songs |-> << Song("Hello", "Adele", Placeholder, "uri:hello", TRUE, <<"pop">>) >>,
     top_tracks  |-> << Song("Chandelier", "Sia", "cover:chandelier", "uri:chandelier",
                              FALSE, <<>>),
                        Song("Nonstop", "Drake", "cover:nonstop", "uri:nonstop",
                              FALSE, <<>>) >>] }

\* what the artist search of song_matches_genre ends with
LookupOutcomes == {"ok", "raise"}

\* a candidate track of the pool; bpm Null is "Unknown" or no bpm key, "" is no value
Track(t, a, bpm, liked, source, cover, uri) ==
  [title |-> t, artist |-> a, bpm |-> bpm, liked |-> liked, source |-> source,
   album_cover |-> cover, uri |-> uri]

\* a song_matches_genre in which a failed artist search counts as a match
SongMatchesGenreFailureMatches(song, target_genres, lookup) ==
  \/ ~song.labeled /\ lookup = "raise"
  \/ LET gs == IF song.labeled THEN song.labeled_genres ELSE ArtistGenres(song.artist)
     IN \E tg \in 1..Len(target_genres), g \in 1..Len(gs) :
           Contains(Lower(target_genres[tg]), Lower(gs[g]))

\* song_matches_genre: on labeled_genres when the song carries them, else on the
\* genres of an artist search; a failed search is no match
SongMatchesGenre(song, target_genres, lookup) ==
  LET gs == IF song.labeled THEN song.labeled_genres
            ELSE IF lookup = "ok" THEN ArtistGenres(song.artist) ELSE <<>>
  IN \E tg \in 1..Len(target_genres), g \in 1..Len(gs) :
        Contains(Lower(target_genres[tg]), Lower(gs[g]))

\* the target_artist test of the personal branch
PassesTargetArtist(song, c) ==
  Truthy(c.target_artist) => Contains(Lower(Val(c.target_artist)), Lower(song.artist))

RECURSIVE KeepFrom(_, _, _)
\* the entries of s at the positions of keep, from position i on, in order
KeepFrom(s, keep, i) ==
  IF i > Len(s) THEN <<>>
  ELSE (IF i \in keep THEN <<s[i]>> ELSE <<>>) \o KeepFrom(s, keep, i + 1)

\* a song of the library as the personal branch adds it to filtered_songs
Personal(song) ==
  Track(song.title, song.artist, Null, FALSE, "personal", song.album_cover, song.uri)

\* filtered_songs after the personal branch
PersonalPool(lib, lookups, c) ==
  LET user_songs == lib.liked_songs \o lib.top_tracks
      keep == { i \in 1..Len(user_songs) :
                  /\ PassesTargetArtist(user_songs[i], c)
                  /\ SongMatchesGenre(user_songs[i], c.genres, lookups[i]) }
      kept == KeepFrom(user_songs, keep, 1)
  IN [i \in 1..Len(kept) |-> Personal(kept[i])]

\* lines 615-620: one future for every song of user_songs that passes the
\* target_artist test, in the order of user_songs; pos is the place of the song
\* in user_songs, lookup is how the artist search of its worker ended
Submitted(lib, c) ==
  LET user_songs == lib.liked_songs \o lib.top_tracks
      keep == { i \in 1..Len(user_songs) : PassesTargetArtist(user_songs[i], c) }
      positions == KeepFrom([i \in 1..Len(user_songs) |-> i], keep, 1)
  IN [k \in 1..Len(positions) |->
        [pos |-> positions[k], song |-> user_songs[positions[k]], lookup |-> "pending"]]

\* an iteration over the futures in the order in which their workers finished
NextToCollectAsCompleted(order, n) == IF n < Len(order) THEN order[n + 1] ELSE 0

\* line 621, "for future in futures": the dict is iterated in insertion order,
\* so the future taken after the first n is the one submitted as number n + 1
NextToCollect(order, n) == n + 1

\* ------------------------------------------------ similar tracks, generation
RECURSIVE SeqsUpTo(_, _)
\* the sequences over S of length at most n
SeqsUpTo(S, n) ==
  IF n = 0 THEN {<<>>}
  ELSE LET shorter == SeqsUpTo(S, n - 1)
       IN shorter \cup { Append(t, x) : t \in shorter, x \in S }

\* tracks of a track.getSimilar answer, as get_similar_tracks_lastfm builds them
SimilarTracks ==
  { Track("Passionfruit", "Drake", Null, FALSE, "", "", ""),
    Track("Chandelier", "Sia", Null, FALSE, "", "", "") }

\* the lists get_similar_tracks_lastfm may return (empty when the status is not
\* 200 or the service knows no similar track)
SimilarOutcomes == SeqsUpTo(SimilarTracks, MaxRecs)

\* objects of the JSON list the generative fallback answers with; json.loads
\* keeps every key of an object, so an object may carry an album_cover of its own
GeneratedTracks ==
  { Track("Nonstop", "DRAKE ", Some(120), FALSE, "", "", ""),
    Track("Hello", "Adele", Some(70), FALSE, "", "", ""),
    Track("Hello", "Adele", Some(70), FALSE, "", "cover:generated", ""),
    Track("Cheap Thrills", "Sia", Null, FALSE, "", "", "") }

\* what the completion call of the fallback ends with: the call raises, the text
\* holds no JSON list of objects, the list does not parse, or a list of objects
FallbackOutcomes ==
  { [kind |-> k, tracks |-> <<>>] : k \in {"raise", "nolist", "badjson"} }
  \cup { [kind |-> "list", tracks |-> t] : t \in SeqsUpTo(GeneratedTracks, MaxAI) \ {<<>>} }

Tagged(tracks, source) ==
  [i \in 1..Len(tracks) |-> [tracks[i] EXCEPT !.source = source, !.liked = FALSE]]

\* ------------------------------------------------------------ enforcement
\* lines 658-663: drop the songs of the excluded artist
ExcludeFilter(songs, c) ==
  IF Truthy(c.exclude_artist)
  THEN SelectSeq(songs, LAMBDA s : StripLower(s.artist) # StripLower(Val(c.exclude_artist)))
  ELSE songs

\* lines 606-609: bpm_start and bpm_end are the two entries of bpm_range when it
\* is a list of two, 60 and 130 otherwise
BpmStart(c) == IF Len(c.bpm_range) = 2 THEN c.bpm_range[1] ELSE DefaultBpmLow
BpmEnd(c) == IF Len(c.bpm_range) = 2 THEN c.bpm_range[2] ELSE DefaultBpmHigh

\* int((bpm_start + bpm_end) / 2)
FallbackBpm(c) == (BpmStart(c) + BpmEnd(c)) \div 2

\* lines 713-716: a song without a tempo gets the midpoint of the range
Backfill(songs, c) ==
  [i \in 1..Len(songs) |->
     IF IsNull(songs[i].bpm) THEN [songs[i] EXCEPT !.bpm = Some(FallbackBpm(c))]
     ELSE songs[i]]

\* x placed after the entries of the sorted t whose tempo is not above its own
InsertByBpm(t, x) ==
  LET k == Cardinality({ i \in 1..Len(t) : Val(t[i].bpm) <= Val(x.bpm) })
  IN SubSeq(t, 1, k) \o <<x>> \o SubSeq(t, k + 1, Len(t))

RECURSIVE SortedPrefix(_, _)
SortedPrefix(songs, n) ==
  IF n = 0 THEN <<>> ELSE InsertByBpm(SortedPrefix(songs, n - 1), songs[n])

\* no sort: the songs stay in the order of the pool
SortByBpmNone(songs) == songs

\* sorted(filtered_songs, key=bpm): ascending and stable
SortByBpm(songs) == SortedPrefix(songs, Len(songs))

\* lines 713-720
Ordered(songs, c) ==
  IF c.gradual_bpm THEN SortByBpm(Backfill(songs, c)) ELSE Backfill(songs, c)

\* Python's s[:n]
Prefix(s, n) ==
  IF n >= 0 THEN SubSeq(s, 1, IF n < Len(s) THEN n ELSE Len(s))
  ELSE SubSeq(s, 1, IF Len(s) + n > 0 THEN Len(s) + n ELSE 0)

\* ------------------------------------------------------------- enrichment
\* 100 * SequenceMatcher(None, a.lower(), b.lower()).ratio(), rounded down
Ratio(a, b) ==
  IF Lower(a) = Lower(b) THEN 100
  ELSE IF {Lower(a), Lower(b)} = {"drake", "drake "} THEN 90
  ELSE 40

Threshold == 70

Matches(song, csong) ==
  Ratio(song.title, csong.title) > Threshold /\ Ratio(song.artist, csong.artist) > Threshold

\* find_cached_match: the first cached song similar in title and in artist
FindCachedMatch(song, cached) ==
  IF \E i \in 1..Len(cached) : Matches(song, cached[i])
  THEN Some(cached[CHOOSE i \in 1..Len(cached) :
              Matches(song, cached[i]) /\ \A j \in 1..(i - 1) : ~Matches(song, cached[j])])
  ELSE Null

\* an enrichment that takes one missing field from the match at each application
EnrichedOneField(song, cached) ==
  LET m == IF song.album_cover = "" \/ song.uri = ""
           THEN FindCachedMatch(song, cached) ELSE Null
      s1 == IF IsNull(m) THEN song
            ELSE IF song.album_cover = ""
                 THEN [song EXCEPT !.album_cover = Val(m).album_cover]
                 ELSE [song EXCEPT !.uri = Val(m).uri]
  IN IF s1.album_cover = "" THEN [s1 EXCEPT !.album_cover = Placeholder] ELSE s1

\* lines 727-733 for one song
Enriched(song, cached) ==
  LET m == IF song.album_cover = "" \/ song.uri = ""
           THEN FindCachedMatch(song, cached) ELSE Null
      s1 == IF IsNull(m) THEN song
            ELSE [song EXCEPT !.album_cover = Val(m).album_cover, !.uri = Val(m).uri]
  IN IF s1.album_cover = "" THEN [s1 EXCEPT !.album_cover = Placeholder] ELSE s1

\* lines 725-747: the first num_songs songs, enriched
Playlist(songs, n, lib) ==
  LET cut == Prefix(songs, n)
      cached == lib.liked_songs \o lib.top_tracks
  IN [i \in 1..Len(cut) |-> Enriched(cut[i], cached)]

\* ------------------------------------------------- the liked-songs caches
\* limit in async_get_all_liked_songs: the page size and the step of the offset
Limit == 50

\* the user's saved tracks as the pages /v1/me/tracks serves them; a page is
\* the sequence of the saved tracks the model tells apart, the last page has
\* next = null; an empty library is one empty page
RemoteLibraries ==
  { << <<>> >> } \cup { [p \in 1..n |-> <<p>>] : n \in 1..MaxPages }

RECURSIVE Concat(_, _)
\* the pages 1..n of a library, one after the other
Concat(pages, n) == IF n = 0 THEN <<>> ELSE Concat(pages, n - 1) \o pages[n]

\* every saved track of a library
AllTracks(pages) == Concat(pages, Len(pages))

\* the page that the fetch at an offset asks for
PageAt(off) == off \div Limit + 1

\* the content of a cache file: the format of its entries ("raw": the objects
\* of /v1/me/tracks, with a "track" key; "projected": name, artist, album_cover,
\* uri) and the tracks
CacheFile(format, tracks) == [format |-> format, items |-> tracks]

\* the projection of lines 232-237 evaluates track["track"] for every entry:
\* KeyError for an entry in the projected format
ProjectionFails(file) == file.format = "projected" /\ file.items # <<>>

\* how a call of get_user_preferences ended, and the liked songs it returned
CallResult(kind, liked) == [kind |-> kind, liked |-> liked]

\* ------------------------------------------------------ the debug flag
\* expected_bpm of validate_playlist for the track at place i (from 1) of n:
\* round(low + (i - 1) * (high - low) / (n - 1)), low when n = 1
ExpectedBpm(c, i, n) ==
  IF n > 1
  THEN RoundDiv(c.bpm_range[1] * (n - 1) + (i - 1) * (c.bpm_range[2] - c.bpm_range[1]),
                n - 1)
  ELSE c.bpm_range[1]

\* validate_playlist, lines 529-556: the playlist as the validation leaves it; a
\* track without a tempo gets the expected tempo (gradual_bpm) or the midpoint
\* of the range (concern_bpm)
ValidatePlaylist(pl, c) ==
  [i \in 1..Len(pl) |->
     IF ~IsNull(pl[i].bpm) THEN pl[i]
     ELSE IF c.gradual_bpm THEN [pl[i] EXCEPT !.bpm = Some(ExpectedBpm(c, i, Len(pl)))]
     ELSE IF c.concern_bpm
          THEN [pl[i] EXCEPT !.bpm = Some((c.bpm_range[1] + c.bpm_range[2]) \div 2)]
     ELSE pl[i]]

\* validate_playlist reads constraints["bpm_range"][0] for every track when
\* gradual_bpm or concern_bpm is set (lines 533, 539, 549): IndexError for an
\* empty bpm_range
ValidationRaises(pl, c) ==
  (c.gradual_bpm \/ c.concern_bpm) /\ Len(pl) > 0 /\ Len(c.bpm_range) = 0

\* lines 748-754: what generate_constrained_playlist returns, or the exception
\* that leaves it; reasoning says whether the result has the reasoning key
Returned(debug, pl, c) ==
  IF ~debug THEN [kind |-> "playlist", playlist |-> pl, reasoning |-> FALSE]
  ELSE IF ValidationRaises(pl, c)
       THEN [kind |-> "raise", playlist |-> <<>>, reasoning |-> FALSE]
       ELSE [kind |-> "playlist", playlist |-> ValidatePlaylist(pl, c), reasoning |-> TRUE]

VARIABLES
  pc,           \* where the request is: Extracting, Sourcing, Lookups, Excluding,
                \* Fallback, Ordering, Enriching, Done, Raised
  user_query,   \* user_query, a sequence of tokens
  completion,   \* what the completion call of interpret_user_query ended with
  constraints,  \* the constraints interpret_user_query returned
  num_songs,    \* the target count
  library,      \* what get_user_preferences returned, Null before the first call
  filtered_songs,   \* filtered_songs, the pool of candidate tracks
  futures,      \* the futures of the personal branch, in the order of submission
  done_order,   \* the numbers of the futures whose worker has finished, in the
                \* order in which they finished
  collected,    \* how many results the loop of line 621 has taken
  after_sourcing,   \* filtered_songs as the sourcing branch left it
  after_exclusion,  \* filtered_songs after the exclusion, as the fallback's test
                    \* found it
  aiCalls,      \* completion calls of the generative fallback so far
  aiNeeded,     \* the number of songs the fallback asked for
  aiOutcome,    \* how the fallback's call ended, "none" when it was not made
  playlist,     \* the playlist returned with debug=False
  returned,     \* Null before the return; then, for debug = FALSE and for debug =
                \* TRUE, what the request returns. The flag changes nothing before
                \* line 748 but the reasoning list and the prints, so the two
                \* requests share every step up to the return.
  result,       \* what was returned: "none" (nothing yet) or "playlist"
  failure,      \* the exception that left generate_constrained_playlist, "none" if none
  cpc,          \* where a call that reads the liked songs is: Idle (no call),
                \* Paging, Projecting
  caller,       \* the function that runs: "prefs" (get_user_preferences), "label"
                \* (cache_labeled_liked_songs), "none"
  remote,       \* the user's saved tracks at the music service, in pages
  liked_cache,  \* liked_songs_cache.json while it is fresh, Null otherwise
  labeled_cache,     \* labeled_liked_songs_cache.json while it is fresh, Null otherwise
  top_artists_cache, \* whether top_artists_cache.json is there and fresh
  top_tracks_cache,  \* whether top_tracks_cache.json is there and fresh
  offset,       \* offset of async_get_all_liked_songs
  items,        \* items of async_get_all_liked_songs
  raw,          \* liked_songs_raw, what async_get_all_liked_songs returned
  fetched,      \* the offsets of the batches asked for in the current pagination
  results,      \* how the calls of get_user_preferences ended, in order
  expired       \* whether a cache has run out of its TTL so far

\* the state of a request of generate_constrained_playlist
pipeline == <<pc, user_query, completion, constraints, num_songs, library, filtered_songs,
              futures, done_order, collected, after_sourcing, after_exclusion, aiCalls,
              aiNeeded, aiOutcome, playlist, returned, result, failure>>

\* the cache files and the state of a call that reads the liked songs
caches == <<cpc, caller, remote, liked_cache, labeled_cache, top_artists_cache,
            top_tracks_cache, offset, items, raw, fetched, results, expired>>

vars == <<pipeline, caches>>

\* the state of the fan-out of lines 614-631
fanout == <<futures, done_order, collected>>

\* no request has started
NoRequest(q) ==
  /\ pc = "Extracting"
  /\ user_query = q
  /\ completion = Null
  /\ constraints = Null
  /\ num_songs = 0
  /\ library = Null
  /\ filtered_songs = <<>>
  /\ futures = <<>>
  /\ done_order = <<>>
  /\ collected = 0
  /\ after_sourcing = <<>>
  /\ after_exclusion = <<>>
  /\ aiCalls = 0
  /\ aiNeeded = 0
  /\ aiOutcome = "none"
  /\ playlist = <<>>
  /\ returned = Null
  /\ result = "none"
  /\ failure = "none"

\* no cache file is there, no call runs; the labeled cache, which only
\* cache_labeled_liked_songs writes, may be there already
ColdCaches(pages, labeled) ==
  /\ cpc = "Idle"
  /\ caller = "none"
  /\ remote = pages
  /\ liked_cache = Null
  /\ labeled_cache = labeled
  /\ top_artists_cache = FALSE
  /\ top_tracks_cache = FALSE
  /\ offset = 0
  /\ items = <<>>
  /\ raw = CacheFile("raw", <<>>)
  /\ fetched = <<>>
  /\ results = <<>>
  /\ expired = FALSE

Init ==
  /\ \E q \in Queries : NoRequest(q)
  /\ ColdCaches(<< <<>> >>, Null)

\* an exception leaves generate_constrained_playlist
Raise(what) ==
  /\ pc' = "Raised"
  /\ failure' = what

\* generate_constrained_playlist, lines 584-609: interpret_user_query and the target count
Extract ==
  /\ pc = "Extracting"
  /\ \E comp \in CompletionOutcomes, res \in ResolveOutcomes :
       /\ NeedsResolution(user_query, ExtractedJson(comp)) \/ res = "notfound"
       /\ completion' = comp
       /\ IF comp.kind = "notobject"
          THEN \* extracted_json.get on a list, a number or a string: AttributeError
               /\ Raise("completion_not_object")
               /\ UNCHANGED <<constraints, num_songs>>
          ELSE IF NeedsResolution(user_query, ExtractedJson(comp)) /\ res = "raise"
          THEN \* requests.get in get_reference_track_details raises; nothing catches it
               /\ Raise("exclusion_lookup")
               /\ UNCHANGED <<constraints, num_songs>>
          ELSE /\ constraints' = Constraints(user_query, comp, res)
               /\ num_songs' = NumSongs(Constraints(user_query, comp, res))
               /\ pc' = "Sourcing"
               /\ UNCHANGED failure
  /\ UNCHANGED <<user_query, library, filtered_songs, after_sourcing, after_exclusion,
                 aiCalls, aiNeeded, aiOutcome, playlist, result>>
  /\ UNCHANGED fanout
  /\ UNCHANGED caches
  /\ UNCHANGED returned

\* what a call of get_user_preferences may return: the library, the same at every call
SnapshotChoices == IF IsNull(library) THEN Libraries ELSE {Val(library)}

\* lines 611-620: the personal branch fetches the library and submits one
\* song_matches_genre call per song to the executor
SourcePersonal ==
  /\ pc = "Sourcing"
  /\ constraints.use_only_user_songs
  /\ \/ \* get_user_preferences raises (a Spotify call fails); nothing catches it
        /\ Raise("snapshot")
        /\ UNCHANGED <<library, futures>>
     \/ \E lib \in SnapshotChoices :
           /\ library' = Some(lib)
           /\ futures' = Submitted(lib, constraints)
           /\ pc' = "Lookups"
           /\ UNCHANGED failure
  /\ UNCHANGED <<user_query, completion, constraints, num_songs, filtered_songs,
                 done_order, collected, after_sourcing, after_exclusion, aiCalls,
                 aiNeeded, aiOutcome, playlist, result>>
  /\ UNCHANGED caches
  /\ UNCHANGED returned

\* lines 250-268 in a worker thread: the song_matches_genre call of one pending
\* future finishes; a labeled song needs no artist search
LookupCompletes ==
  /\ pc = "Lookups"
  /\ \E k \in 1..Len(futures), out \in LookupOutcomes :
       /\ futures[k].lookup = "pending"
       /\ futures[k].song.labeled => out = "ok"
       /\ futures' = [futures EXCEPT ![k].lookup = out]
       /\ done_order' = Append(done_order, k)
  /\ UNCHANGED <<pc, user_query, completion, constraints, num_songs, library,
                 filtered_songs, collected, after_sourcing, after_exclusion, aiCalls,
                 aiNeeded, aiOutcome, playlist, result, failure>>
  /\ UNCHANGED caches
  /\ UNCHANGED returned

\* lines 621-631, one iteration: future.result() returns once the worker of the
\* future has finished; a song that matched is appended to filtered_songs
CollectResult ==
  /\ pc = "Lookups"
  /\ collected < Len(futures)
  /\ LET k == NextToCollect(done_order, collected)
     IN /\ k \in 1..Len(futures)
        /\ futures[k].lookup # "pending"
        /\ filtered_songs' =
             IF SongMatchesGenre(futures[k].song, constraints.genres, futures[k].lookup)
             THEN Append(filtered_songs, Personal(futures[k].song))
             ELSE filtered_songs
  /\ collected' = collected + 1
  /\ UNCHANGED <<pc, user_query, completion, constraints, num_songs, library, futures,
                 done_order, after_sourcing, after_exclusion, aiCalls, aiNeeded,
                 aiOutcome, playlist, result, failure>>
  /\ UNCHANGED caches
  /\ UNCHANGED returned

\* lines 631-633: the loop is over and the with block of the executor is left
JoinLookups ==
  /\ pc = "Lookups"
  /\ collected = Len(futures)
  /\ after_sourcing' = filtered_songs
  /\ pc' = "Excluding"
  /\ UNCHANGED <<user_query, completion, constraints, num_songs, library, filtered_songs,
                 futures, done_order, collected, after_exclusion, aiCalls, aiNeeded,
                 aiOutcome, playlist, result, failure>>
  /\ UNCHANGED caches
  /\ UNCHANGED returned

\* lines 635-657: the reference track branch. A reference that is not found is
\* used as written, with the artist "Unknown"; the pool is what the similarity
\* service answers either way.
SourceReference ==
  /\ pc = "Sourcing"
  /\ ~constraints.use_only_user_songs
  /\ Truthy(constraints.reference_track)
  /\ \/ \* requests.get in get_reference_track_details raises; nothing catches it
        /\ Raise("reference_lookup")
        /\ UNCHANGED <<filtered_songs, after_sourcing>>
     \/ \* requests.get in get_similar_tracks_lastfm raises; nothing catches it
        /\ Raise("similar_tracks")
        /\ UNCHANGED <<filtered_songs, after_sourcing>>
     \/ \E sim \in SimilarOutcomes :
           /\ filtered_songs' = Tagged(sim, "Last.fm")
           /\ after_sourcing' = Tagged(sim, "Last.fm")
           /\ pc' = "Excluding"
           /\ UNCHANGED failure
  /\ UNCHANGED <<user_query, completion, constraints, num_songs, library, after_exclusion,
                 aiCalls, aiNeeded, aiOutcome, playlist, result>>
  /\ UNCHANGED fanout
  /\ UNCHANGED caches
  /\ UNCHANGED returned

\* neither branch: filtered_songs stays empty
SourceNone ==
  /\ pc = "Sourcing"
  /\ ~constraints.use_only_user_songs
  /\ ~Truthy(constraints.reference_track)
  /\ pc' = "Excluding"
  /\ UNCHANGED <<user_query, completion, constraints, num_songs, library, filtered_songs,
                 after_sourcing, after_exclusion, aiCalls, aiNeeded, aiOutcome, playlist,
                 result, failure>>
  /\ UNCHANGED fanout
  /\ UNCHANGED caches
  /\ UNCHANGED returned

\* lines 658-663
Exclude ==
  /\ pc = "Excluding"
  /\ filtered_songs' = ExcludeFilter(filtered_songs, constraints)
  /\ after_exclusion' = ExcludeFilter(filtered_songs, constraints)
  /\ pc' = "Fallback"
  /\ UNCHANGED <<user_query, completion, constraints, num_songs, library, after_sourcing,
                 aiCalls, aiNeeded, aiOutcome, playlist, result, failure>>
  /\ UNCHANGED fanout
  /\ UNCHANGED caches
  /\ UNCHANGED returned

\* lines 664-712: the pool is short, one completion call asks for the missing songs
GenerativeFallback ==
  /\ pc = "Fallback"
  /\ Len(filtered_songs) < num_songs
  /\ \E out \in FallbackOutcomes :
       /\ aiOutcome' = out.kind
       /\ filtered_songs' = IF out.kind = "list"
                            THEN filtered_songs \o Tagged(out.tracks, "AI")
                            ELSE filtered_songs
  /\ aiCalls' = aiCalls + 1
  /\ aiNeeded' = num_songs - Len(filtered_songs)
  /\ pc' = "Ordering"
  /\ UNCHANGED <<user_query, completion, constraints, num_songs, library, after_sourcing,
                 after_exclusion, playlist, result, failure>>
  /\ UNCHANGED fanout
  /\ UNCHANGED caches
  /\ UNCHANGED returned

\* line 664: the pool is long enough
SkipFallback ==
  /\ pc = "Fallback"
  /\ ~(Len(filtered_songs) < num_songs)
  /\ pc' = "Ordering"
  /\ UNCHANGED <<user_query, completion, constraints, num_songs, library, filtered_songs,
                 after_sourcing, after_exclusion, aiCalls, aiNeeded, aiOutcome, playlist,
                 result, failure>>
  /\ UNCHANGED fanout
  /\ UNCHANGED caches
  /\ UNCHANGED returned

\* lines 713-720: tempo backfill and the gradual sort
Order ==
  /\ pc = "Ordering"
  /\ filtered_songs' = Ordered(filtered_songs, constraints)
  /\ pc' = "Enriching"
  /\ UNCHANGED <<user_query, completion, constraints, num_songs, library, after_sourcing,
                 after_exclusion, aiCalls, aiNeeded, aiOutcome, playlist, result, failure>>
  /\ UNCHANGED fanout
  /\ UNCHANGED caches
  /\ UNCHANGED returned

\* lines 722-754: the snapshot, truncation, enrichment and the projection
Enrich ==
  /\ pc = "Enriching"
  /\ \/ \* get_user_preferences raises; nothing catches it
        /\ Raise("snapshot")
        /\ UNCHANGED <<library, playlist, returned, result>>
     \/ \E lib \in SnapshotChoices :
           /\ library' = Some(lib)
           /\ playlist' = Playlist(filtered_songs, num_songs, lib)
           /\ returned' = Some([debug \in BOOLEAN |->
                  Returned(debug, Playlist(filtered_songs, num_songs, lib), constraints)])
           /\ result' = "playlist"
           /\ pc' = "Done"
           /\ UNCHANGED failure
  /\ UNCHANGED <<user_query, completion, constraints, num_songs, filtered_songs,
                 after_sourcing, after_exclusion, aiCalls, aiNeeded, aiOutcome>>
  /\ UNCHANGED fanout
  /\ UNCHANGED caches

Next ==
  \/ Extract
  \/ SourcePersonal
  \/ LookupCompletes
  \/ CollectResult
  \/ JoinLookups
  \/ SourceReference
  \/ SourceNone
  \/ Exclude
  \/ GenerativeFallback
  \/ SkipFallback
  \/ Order
  \/ Enrich

Spec == Init /\ [][Next]_vars

\* ------------------------------------------- calls that read the liked songs
\* what a call of the music service ends with
SpotifyOutcomes == {"ok", "raise"}

\* what fetch_liked_songs_batch ends with: the page, None (a status other than
\* 200), or an exception of the HTTP session
BatchOutcomes == {"ok", "fail", "raise"}

\* an exception leaves the running call
CallRaises(kind) ==
  /\ cpc' = "Idle"
  /\ caller' = "none"
  /\ results' = IF caller = "prefs" THEN Append(results, CallResult(kind, <<>>)) ELSE results

\* lines 73-83: async_get_all_liked_songs returns the fresh cache, or starts to page
ReadLikedSongs(who) ==
  /\ caller' = who
  /\ IF ~IsNull(liked_cache)
     THEN /\ raw' = Val(liked_cache)
          /\ cpc' = "Projecting"
          /\ UNCHANGED <<offset, items, fetched>>
     ELSE /\ cpc' = "Paging"
          /\ offset' = 0
          /\ items' = <<>>
          /\ fetched' = <<>>
          /\ UNCHANGED raw

\* get_user_preferences, lines 193-231: the top artists and the top tracks, from
\* their caches or from the music service, then the labeled liked songs from
\* their cache, or the liked songs
GetUserPreferences ==
  /\ cpc = "Idle"
  /\ Len(results) < MaxCalls
  /\ \E artists \in SpotifyOutcomes, tracks \in SpotifyOutcomes :
       /\ top_artists_cache => artists = "ok"
       /\ (top_tracks_cache \/ artists = "raise") => tracks = "ok"
       /\ top_artists_cache' = (top_artists_cache \/ artists = "ok")
       /\ top_tracks_cache' = (top_tracks_cache \/ (artists = "ok" /\ tracks = "ok"))
       /\ IF artists = "raise" \/ tracks = "raise"
          THEN /\ results' = Append(results, CallResult("raise", <<>>))
               /\ UNCHANGED <<cpc, caller, raw, offset, items, fetched>>
          ELSE IF ~IsNull(labeled_cache)
          THEN /\ results' = Append(results, CallResult("ok", Val(labeled_cache)))
               /\ UNCHANGED <<cpc, caller, raw, offset, items, fetched>>
          ELSE /\ ReadLikedSongs("prefs")
               /\ UNCHANGED results
  /\ UNCHANGED <<remote, liked_cache, labeled_cache, expired>>
  /\ UNCHANGED pipeline

\* cache_labeled_liked_songs, lines 154-162
CacheLabeledLikedSongs ==
  /\ cpc = "Idle"
  /\ ReadLikedSongs("label")
  /\ UNCHANGED <<remote, liked_cache, labeled_cache, top_artists_cache, top_tracks_cache,
                 results, expired>>
  /\ UNCHANGED pipeline

\* lines 84-120, one turn of the loop: a batch is fetched at offset; the loop
\* ends when the fetch returns None or the page has no next, and the items
\* fetched so far are saved to the cache and returned
FetchBatch ==
  /\ cpc = "Paging"
  /\ fetched' = Append(fetched, offset)
  /\ \E out \in BatchOutcomes :
       CASE out = "raise" ->
              /\ CallRaises("raise")
              /\ UNCHANGED <<liked_cache, offset, items, raw>>
         [] out = "fail" ->
              /\ liked_cache' = Some(CacheFile("raw", items))
              /\ raw' = CacheFile("raw", items)
              /\ cpc' = "Projecting"
              /\ UNCHANGED <<caller, offset, items, results>>
         [] out = "ok" ->
              LET all == items \o remote[PageAt(offset)]
              IN /\ items' = all
                 /\ IF PageAt(offset) = Len(remote)
                    THEN /\ liked_cache' = Some(CacheFile("raw", all))
                         /\ raw' = CacheFile("raw", all)
                         /\ cpc' = "Projecting"
                         /\ UNCHANGED offset
                    ELSE /\ offset' = offset + Limit
                         /\ UNCHANGED <<liked_cache, raw, cpc>>
                 /\ UNCHANGED <<caller, results>>
  /\ UNCHANGED <<remote, labeled_cache, top_artists_cache, top_tracks_cache, expired>>
  /\ UNCHANGED pipeline

\* the projection of liked_songs_raw and what follows it: get_user_preferences
\* (lines 232-248) labels the songs, saves the projected songs to the
\* liked-songs cache and returns; cache_labeled_liked_songs (lines 163-177) labels
\* them and saves them to the labeled cache
Project ==
  /\ cpc = "Projecting"
  /\ IF ProjectionFails(raw)
     THEN /\ CallRaises("keyerror")
          /\ UNCHANGED <<liked_cache, labeled_cache>>
     ELSE /\ cpc' = "Idle"
          /\ caller' = "none"
          /\ IF caller = "prefs"
             THEN /\ liked_cache' = Some(CacheFile("projected", raw.items))
                  /\ results' = Append(results, CallResult("ok", raw.items))
                  /\ UNCHANGED labeled_cache
             ELSE /\ labeled_cache' = Some(raw.items)
                  /\ UNCHANGED <<liked_cache, results>>
  /\ UNCHANGED <<remote, top_artists_cache, top_tracks_cache, offset, items, raw, fetched,
                 expired>>
  /\ UNCHANGED pipeline

\* load_cache, line 44: a cache file grows older than its TTL
Expire ==
  /\ cpc = "Idle"
  /\ \/ /\ ~IsNull(liked_cache)
        /\ liked_cache' = Null
        /\ UNCHANGED <<labeled_cache, top_artists_cache, top_tracks_cache>>
     \/ /\ ~IsNull(labeled_cache)
        /\ labeled_cache' = Null
        /\ UNCHANGED <<liked_cache, top_artists_cache, top_tracks_cache>>
     \/ /\ top_artists_cache
        /\ top_artists_cache' = FALSE
        /\ UNCHANGED <<liked_cache, labeled_cache, top_tracks_cache>>
     \/ /\ top_tracks_cache
        /\ top_tracks_cache' = FALSE
        /\ UNCHANGED <<liked_cache, labeled_cache, top_artists_cache>>
  /\ expired' = TRUE
  /\ UNCHANGED <<cpc, caller, remote, offset, items, raw, fetched, results>>
  /\ UNCHANGED pipeline

CacheInit ==
  /\ NoRequest(<<"car ride">>)
  /\ \E pages \in RemoteLibraries :
        \E labeled \in {Null, Some(AllTracks(pages))} : ColdCaches(pages, labeled)

CacheNext ==
  \/ GetUserPreferences
  \/ CacheLabeledLikedSongs
  \/ FetchBatch
  \/ Project
  \/ Expire

CacheSpec == CacheInit /\ [][CacheNext]_vars

\* ------------------------------------------------------------------ claims
\* the states in which interpret_user_query has returned its constraints
Interpreted ==
  pc \in {"Sourcing", "Lookups", "Excluding", "Fallback", "Ordering", "Enriching", "Done"}

\* the states after the test for the generative fallback
PastFallback == pc \in {"Ordering", "Enriching", "Done"}

\* the request is over: a playlist was returned or an exception left the function
Ended == pc \in {"Done", "Raised"}

\* the exceptions raised by calls of external services
ExternalFailures == {"exclusion_lookup", "reference_lookup", "similar_tracks", "snapshot"}

\* C1: the returned playlist holds at most num_songs tracks, and exactly num_songs
\* tracks whenever the pool of the personal, external and generated tracks holds
\* at least num_songs.
C1_CountWithinTarget ==
  pc = "Done" =>
    /\ Len(playlist) <= num_songs
    /\ (Len(filtered_songs) >= num_songs => Len(playlist) = num_songs)

\* C2: with use_only_user_songs and an empty personal pool the request ends with
\* the structured error: no playlist is returned and the generative fallback is
\* not called.
C2_PersonalOnlyEmptyIsError ==
  (PastFallback /\ constraints.use_only_user_songs /\ after_sourcing = <<>>) =>
    /\ aiCalls = 0
    /\ result # "playlist"

\* C3: no track of a returned playlist is by the excluded artist, the artist
\* compared trimmed and lower-cased, whatever source the track came from.
C3_NoExcludedArtist ==
  (pc = "Done" /\ Truthy(constraints.exclude_artist)) =>
    \A i \in 1..Len(playlist) :
       StripLower(playlist[i].artist) # Val(constraints.exclude_artist)

\* C4: in a playlist returned with gradual_bpm and at least two tracks every
\* track has a tempo and the tempos never decrease along the order.
C4_GradualTempoNonDecreasing ==
  (pc = "Done" /\ constraints.gradual_bpm /\ Len(playlist) >= 2) =>
    /\ \A i \in 1..Len(playlist) : ~IsNull(playlist[i].bpm)
    /\ \A i \in 1..(Len(playlist) - 1) :
          Val(playlist[i].bpm) <= Val(playlist[i + 1].bpm)

\* C4, its case: a gradual playlist of at least two tracks of different tempo, cut
\* from a longer pool that held a track of unknown tempo and was not in order
\* before the sort.
C4_Witness ==
  /\ pc = "Done"
  /\ constraints.gradual_bpm
  /\ Len(playlist) >= 2
  /\ Len(filtered_songs) > Len(playlist)
  /\ \E i \in 1..Len(playlist) : playlist[i].source = "personal"
  /\ \E i \in 1..Len(playlist) : playlist[i].source = "AI"
  /\ Val(playlist[1].bpm) < Val(playlist[Len(playlist)].bpm)
  /\ aiOutcome = "list"

\* C5: with use_only_user_songs every track of the returned playlist is a track
\* of the user's library.
C5_PersonalOnlySources ==
  (pc = "Done" /\ constraints.use_only_user_songs) =>
    \A i \in 1..Len(playlist) : playlist[i].source = "personal"

\* C6: no failure of an external call leaves generate_constrained_playlist as an
\* exception.
C6_NoExternalFailurePropagates == failure \notin ExternalFailures

\* C7: the generative fallback is called once when the pool after sourcing and
\* exclusion is shorter than num_songs and not at all otherwise; it asks for
\* num_songs minus the length of the pool; when the call fails or its answer does
\* not parse, the pool stays as it was and the request ends with a playlist.
C7_FallbackOnceNoError ==
  /\ aiCalls <= 1
  /\ PastFallback => (aiCalls = 1 <=> Len(after_exclusion) < num_songs)
  /\ aiCalls = 1 => aiNeeded = num_songs - Len(after_exclusion)
  /\ (pc = "Ordering" /\ aiOutcome \in {"raise", "nolist", "badjson"}) =>
        filtered_songs = after_exclusion
  /\ (Ended /\ aiOutcome \in {"raise", "nolist", "badjson"}) =>
        /\ result = "playlist"
        /\ Len(playlist) <= Len(after_exclusion)

\* the completion service returned a JSON object with a non-null value for field f
Supplied(f) == completion.kind = "object" /\ ~IsNull(completion.json[f])

\* C8, as stated: a value fixed by a heuristic stage (the duration of the regex,
\* the genres and moods of a theme or of the vocabulary, the personal-library
\* flag, the instrument) is the value of the returned constraints.
C8_HeuristicNeverOverwritten ==
  Interpreted =>
    /\ DurationMatch(user_query) # 0 =>
          constraints.duration_minutes = ExtractedDuration(user_query)
    /\ HeuristicGenres(user_query) # <<>> => constraints.genres = HeuristicGenres(user_query)
    /\ HeuristicMoods(user_query) # <<>> =>
          constraints.mood_constraints = HeuristicMoods(user_query)
    /\ UseOnlyUserSongs(user_query) => constraints.use_only_user_songs
    /\ ~IsNull(DetectedInstrument(user_query)) =>
          constraints.instrument = DetectedInstrument(user_query)

\* C8, amended: each of these fields carries the value of the completion service
\* when that value is not null, and the heuristic value when the call failed or
\* the value is null or missing; concern_bpm and gradual_bpm always carry the
\* heuristic value.
C8_OnlySuppliedValuesOverwrite ==
  Interpreted =>
    /\ constraints.duration_minutes =
          (IF Supplied("duration_minutes") THEN Val(completion.json.duration_minutes)
           ELSE ExtractedDuration(user_query))
    /\ constraints.genres =
          (IF Supplied("genres") THEN Val(completion.json.genres)
           ELSE DefaultGenres(user_query))
    /\ constraints.mood_constraints =
          (IF Supplied("mood_constraints") THEN Val(completion.json.mood_constraints)
           ELSE HeuristicMoods(user_query))
    /\ constraints.use_only_user_songs =
          (IF Supplied("use_only_user_songs")
           THEN Val(completion.json.use_only_user_songs)
           ELSE UseOnlyUserSongs(user_query))
    /\ constraints.instrument =
          (IF Supplied("instrument") THEN completion.json.instrument
           ELSE DetectedInstrument(user_query))
    /\ constraints.concern_bpm = ConcernBpm(user_query)
    /\ constraints.gradual_bpm = GradualBpm(user_query)

\* C8, its case: the query states a duration and the personal-library phrase, the
\* completion service supplies another duration and no personal-library flag; the
\* constraints carry the supplied duration and the heuristic flag.
C8_Witness ==
  /\ Interpreted
  /\ DurationMatch(user_query) # 0
  /\ Supplied("duration_minutes")
  /\ Val(completion.json.duration_minutes) # ExtractedDuration(user_query)
  /\ constraints.duration_minutes = Val(completion.json.duration_minutes)
  /\ UseOnlyUserSongs(user_query)
  /\ ~Supplied("use_only_user_songs")
  /\ constraints.use_only_user_songs

\* C9: when the completion call raises or its text is not JSON or not a JSON
\* object, interpret_user_query does not raise and every field carries the
\* heuristic default; a field that a JSON object leaves null or missing carries
\* the heuristic default too.
C9_FailedCompletionKeepsHeuristics ==
  /\ (pc # "Extracting" /\ completion.kind # "object") =>
        /\ failure \notin {"completion_not_object", "exclusion_lookup"}
        /\ Interpreted =>
              /\ constraints.duration_minutes = ExtractedDuration(user_query)
              /\ constraints.genres = DefaultGenres(user_query)
              /\ constraints.mood_constraints = HeuristicMoods(user_query)
              /\ constraints.use_only_user_songs = UseOnlyUserSongs(user_query)
              /\ constraints.instrument = DetectedInstrument(user_query)
  /\ (Interpreted /\ completion.kind = "object") =>
        /\ IsNull(completion.json.duration_minutes) =>
              constraints.duration_minutes = ExtractedDuration(user_query)
        /\ IsNull(completion.json.genres) => constraints.genres = DefaultGenres(user_query)
        /\ IsNull(completion.json.use_only_user_songs) =>
              constraints.use_only_user_songs = UseOnlyUserSongs(user_query)

\* the duration C10 states: the explicit value in minutes, hour and hr units
\* times 60, else the default of the scenario the query mentions, else 60
C10_StatedDuration(q) ==
  LET i == DurationMatch(q)
  IN IF i # 0
     THEN IF q[i + 1] \in {"hour", "hours", "hr"}
          THEN (Tenths(q[i]) * 60) \div 10
          ELSE Tenths(q[i]) \div 10
     ELSE IF HasTerm(q, "car ride") THEN 45
     ELSE IF HasTerm(q, "workout") THEN 60
     ELSE IF HasTerm(q, "study session") THEN 90
     ELSE 60

\* C10: with the completion service failing, duration_minutes is the explicit
\* value converted to minutes, else the scenario default, else 60.
C10_DurationAsStated ==
  (Interpreted /\ completion.kind = "raise") =>
    constraints.duration_minutes = C10_StatedDuration(user_query)

\* n is d / 4 rounded to the nearest integer, a half to the even neighbour
C11_IsRounded(n, d) ==
  /\ (4 * n - d) \in -2..2
  /\ (4 * n - d) \in {-2, 2} => n % 2 = 0

\* C11: the target count is explicit_song_count whenever that is set, whatever
\* the duration; otherwise it is max(5, round(duration_minutes / 4)), which is 5
\* for 20 minutes and never below 5.
C11_TargetCount ==
  Interpreted =>
    /\ ~IsNull(constraints.explicit_song_count) =>
          num_songs = Val(constraints.explicit_song_count)
    /\ IsNull(constraints.explicit_song_count) =>
          /\ \E n \in 0..constraints.duration_minutes :
                /\ C11_IsRounded(n, constraints.duration_minutes)
                /\ num_songs = (IF n >= 5 THEN n ELSE 5)
          /\ num_songs >= 5
          /\ constraints.duration_minutes = 20 => num_songs = 5

\* C11, its case: no explicit count and a duration of 8 minutes, whose quarter
\* rounds to 2: the target count is the floor of 5.
C11_Witness ==
  /\ Interpreted
  /\ IsNull(constraints.explicit_song_count)
  /\ constraints.duration_minutes = 8
  /\ num_songs = 5

\* C12: the phases run in the order Extracting, Sourcing, optional generative
\* fallback, Enriching, Enforcing, Done, so that no enforcement step (tempo
\* backfill, gradual sort) has run when enrichment is about to start: the tracks
\* left by sourcing and exclusion are still at the head of the pool, unchanged
\* in tempo and in order.
C12_EnrichmentBeforeEnforcement ==
  pc = "Enriching" =>
    /\ Len(filtered_songs) >= Len(after_exclusion)
    /\ SubSeq(filtered_songs, 1, Len(after_exclusion)) = after_exclusion

\* the (title, artist) pair of track t, trimmed and lower-cased, is the pair of
\* a liked song or of a top track of the snapshot
C13_InSnapshot(t) ==
  LET cached == Val(library).liked_songs \o Val(library).top_tracks
  IN \E k \in 1..Len(cached) :
        /\ StripLower(cached[k].title) = StripLower(t.title)
        /\ StripLower(cached[k].artist) = StripLower(t.artist)

\* C13: every track of the returned playlist is flagged liked exactly when its
\* (title, artist) pair is in the snapshot's liked songs or top tracks, whatever
\* its source and whatever flag the source gave it.
C13_LikedIffInSnapshot ==
  pc = "Done" =>
    \A i \in 1..Len(playlist) : playlist[i].liked <=> C13_InSnapshot(playlist[i])

\* C14: enrichment leaves a field that was set before it as it was: the artwork
\* URL and the URI of every returned track are those of the candidate whenever
\* the candidate had them, also when it had only one of the two and a cached
\* song matches it.
C14_EnrichmentKeepsSetFields ==
  pc = "Done" =>
    LET cut == Prefix(filtered_songs, num_songs)
    IN \A i \in 1..Len(playlist) :
          /\ cut[i].album_cover # "" => playlist[i].album_cover = cut[i].album_cover
          /\ cut[i].uri # "" => playlist[i].uri = cut[i].uri

\* C15: enrichment is idempotent: the enrichment of the returned tracks against
\* the same snapshot is the returned tracks.
C15_EnrichmentIdempotent ==
  pc = "Done" =>
    LET cached == Val(library).liked_songs \o Val(library).top_tracks
    IN [i \in 1..Len(playlist) |-> Enriched(playlist[i], cached)] = playlist

\* C15, its case: a returned playlist with a track whose artwork and URI were
\* both taken from a cached match and a track without a match that got the
\* placeholder and still has no URI.
C15_Witness ==
  /\ pc = "Done"
  /\ \E i \in 1..Len(playlist) :
        /\ Prefix(filtered_songs, num_songs)[i].album_cover = ""
        /\ Prefix(filtered_songs, num_songs)[i].uri = ""
        /\ playlist[i].album_cover \notin {"", Placeholder}
        /\ playlist[i].uri # ""
  /\ \E i \in 1..Len(playlist) :
        /\ playlist[i].album_cover = Placeholder
        /\ playlist[i].uri = ""

\* C16: the constraints interpret_user_query returns have a bpm_range and a
\* release_year_range that are pairs with low <= high, and an explicit_song_count
\* that is unset or an integer >= 1, whatever the completion service answered.
C16_ConstraintsWellFormed ==
  Interpreted =>
    /\ Len(constraints.bpm_range) = 2
    /\ constraints.bpm_range[1] <= constraints.bpm_range[2]
    /\ Len(constraints.release_year_range) = 2
    /\ constraints.release_year_range[1] <= constraints.release_year_range[2]
    /\ \/ IsNull(constraints.explicit_song_count)
       \/ Val(constraints.explicit_song_count) >= 1

\* C17: no two positions of a returned playlist hold the same (title, artist)
\* pair.
C17_NoDuplicateTracks ==
  pc = "Done" =>
    \A i \in 1..Len(playlist), j \in 1..Len(playlist) :
       (i # j) =>
          ~(playlist[i].title = playlist[j].title /\ playlist[i].artist = playlist[j].artist)

\* the personal branch has run and its executor is closed
AfterPersonalSourcing ==
  /\ pc \in {"Excluding", "Fallback", "Ordering", "Enriching", "Done"}
  /\ constraints.use_only_user_songs

\* the genres of the song of future f hold one of the target genres
C18_GenreFits(f) ==
  LET gs == IF f.song.labeled THEN f.song.labeled_genres ELSE ArtistGenres(f.song.artist)
  IN \E tg \in 1..Len(constraints.genres), g \in 1..Len(gs) :
        Contains(Lower(constraints.genres[tg]), Lower(gs[g]))

\* after the personal branch every lookup has been made, and the pool is the
\* songs whose lookup did not fail and whose genres fit, in the order of submission
C18_PoolAfterLookups ==
  AfterPersonalSourcing =>
    /\ \A k \in 1..Len(futures) : futures[k].lookup # "pending"
    /\ LET fit == SelectSeq(futures, LAMBDA f : f.lookup = "ok" /\ C18_GenreFits(f))
       IN after_sourcing = [k \in 1..Len(fit) |-> Personal(fit[k].song)]

\* C18: in the personal branch a failed genre lookup is no match for its own
\* candidate only: every other candidate is still evaluated, the candidates whose
\* lookup succeeded and matched are the pool, and no step of the fan-out ends the
\* request.
C18_LookupFailureIsNoMatch ==
  /\ []C18_PoolAfterLookups
  /\ [][pc = "Lookups" => pc' \in {"Lookups", "Excluding"}]_vars

\* C18, its case: the lookup of a candidate that fits the genre failed; a
\* candidate whose lookup ended later, with success, is in the pool.
C18_Witness ==
  /\ AfterPersonalSourcing
  /\ \E k \in 1..Len(futures), j \in 1..Len(futures) :
        /\ futures[k].lookup = "raise"
        /\ C18_GenreFits(futures[k])
        /\ ~futures[j].song.labeled
        /\ futures[j].lookup = "ok"
        /\ C18_GenreFits(futures[j])
        /\ \E a \in 1..Len(done_order), b \in 1..Len(done_order) :
              a < b /\ done_order[a] = k /\ done_order[b] = j
        /\ \E i \in 1..Len(after_sourcing) :
              after_sourcing[i] = Personal(futures[j].song)
        /\ \A i \in 1..Len(after_sourcing) :
              after_sourcing[i] # Personal(futures[k].song)

\* C19: in the personal branch with genres ["any"] and no target artist the
\* genre filter is not applied: the pool is every liked song and every top track
\* of the library, in order.
C19_AnyGenreKeepsAll ==
  (AfterPersonalSourcing /\ constraints.genres = <<"any">>
     /\ ~Truthy(constraints.target_artist)) =>
    LET user_songs == Val(library).liked_songs \o Val(library).top_tracks
    IN after_sourcing = [i \in 1..Len(user_songs) |-> Personal(user_songs[i])]

\* how the lookup for each song of user_songs ended, by the place of the song in
\* user_songs: the outcome of the future submitted for it ("ok" for a song that
\* was not submitted)
C20_Lookups ==
  LET user_songs == Val(library).liked_songs \o Val(library).top_tracks
  IN [i \in 1..Len(user_songs) |->
        IF \E k \in 1..Len(futures) : futures[k].pos = i
        THEN futures[CHOOSE k \in 1..Len(futures) : futures[k].pos = i].lookup
        ELSE "ok"]

\* C20: when the pipeline goes on after the fan-out every lookup has finished
\* and its result has been taken, and the pool is the one a sequential pass over
\* user_songs gives with each lookup result at its own song: its members and
\* their order do not depend on the order in which the workers finished.
C20_PoolIndependentOfCompletionOrder ==
  AfterPersonalSourcing =>
    /\ collected = Len(futures)
    /\ Len(done_order) = Len(futures)
    /\ \A k \in 1..Len(futures) :
          /\ futures[k].lookup # "pending"
          /\ \E a \in 1..Len(done_order) : done_order[a] = k
    /\ after_sourcing = PersonalPool(Val(library), C20_Lookups, constraints)

\* C20, its case: two different songs are in the pool in the order of their
\* submission although the worker of the second finished before the worker of
\* the first.
C20_Witness ==
  /\ AfterPersonalSourcing
  /\ \E k \in 1..Len(futures), j \in 1..Len(futures) :
        /\ k < j
        /\ Personal(futures[k].song) # Personal(futures[j].song)
        /\ \E a \in 1..Len(done_order), b \in 1..Len(done_order) :
              a < b /\ done_order[a] = j /\ done_order[b] = k
        /\ \E x \in 1..Len(after_sourcing), y \in 1..Len(after_sourcing) :
              /\ x < y
              /\ after_sourcing[x] = Personal(futures[k].song)
              /\ after_sourcing[y] = Personal(futures[j].song)

\* C21: while no cache has run out of its TTL, every call of
\* get_user_preferences after a first successful one succeeds and returns the
\* liked songs the first call returned; and the entries of the liked-songs cache
\* are always in the raw format that the projection reading them back expects.
C21_SnapshotRepeatable ==
  /\ (~expired /\ Len(results) >= 1 /\ results[1].kind = "ok") =>
        \A k \in 2..Len(results) :
           /\ results[k].kind = "ok"
           /\ results[k].liked = results[1].liked
  /\ ~IsNull(liked_cache) => ~ProjectionFails(Val(liked_cache))

\* C24: the liked-songs cache holds a list only when pagination reached the last
\* page, so it holds every saved track; the batches of one pagination are asked
\* for at strictly increasing offsets, each once, and no more batches than the
\* library has pages.
C24_CacheOnlyCompleteList ==
  /\ ~IsNull(liked_cache) => Val(liked_cache).items = AllTracks(remote)
  /\ \A a \in 1..Len(fetched), b \in 1..Len(fetched) : a < b => fetched[a] < fetched[b]
  /\ Len(fetched) <= Len(remote)

\* C22: a target artist that the heuristic of interpret_user_query detects is
\* the target_artist of the returned constraints when the completion service
\* fails or does not supply one, and then in the personal-only branch the artist
\* of every pool entry contains it.
C22_HeuristicTargetArtistKept ==
  (Interpreted /\ ~IsNull(DetectedTargetArtist(user_query))
     /\ ~Supplied("target_artist")) =>
    /\ constraints.target_artist = DetectedTargetArtist(user_query)
    /\ AfterPersonalSourcing =>
          \A i \in 1..Len(after_sourcing) :
             Contains(Lower(Val(DetectedTargetArtist(user_query))),
                      Lower(after_sourcing[i].artist))

\* C23: the debug flag only adds the reasoning: with the same query and the
\* same answers of the services, a request that returns a playlist without debug
\* returns with debug too, the same tracks in the same order with the same
\* fields and tempos, and the result has the reasoning key exactly with debug.
C23_DebugOnlyAddsReasoning ==
  pc = "Done" =>
    /\ Val(returned)[FALSE].kind = "playlist"
    /\ Val(returned)[TRUE].kind = "playlist"
    /\ Val(returned)[TRUE].playlist = Val(returned)[FALSE].playlist
    /\ Val(returned)[TRUE].reasoning
    /\ ~Val(returned)[FALSE].reasoning

====
